---- MODULE Spec2Model ----
(***************************************************************************)
(* Model of chatbot.py: the chunker, the passage extractor, the index      *)
(* builder, the retriever and the interactive session of main().           *)
(*                                                                         *)
(* Text is a sequence of one-character strings.  A retrieval score         *)
(* sum(ln(1 + N/(1+df[t]))) is kept as the exact fraction                  *)
(* prod((1+df[t]+N)/(1+df[t])) whose logarithm it is; ln is strictly       *)
(* increasing, so comparisons of scores are comparisons of the fractions   *)
(* and "score <= 0" is "fraction <= 1".                                    *)
(***************************************************************************)
EXTENDS Integers, Sequences, FiniteSets, TLC

VARIABLES text, size, overlap, chunks,
          folder, passages, index, q, k, hits, out, searched, pc

vars == <<text, size, overlap, chunks,
          folder, passages, index, q, k, hits, out, searched, pc>>

(* ---------------- program constants ---------------- *)
TOP_K == 5
CHUNK_SIZE == 800
CHUNK_OVERLAP == 100

(* ---------------- bounds of the model ---------------- *)
MaxTextLen == 5
MaxSize == 3
MaxPages == 2
MaxPassages == 3
MaxK == 2

Min(a, b) == IF a < b THEN a ELSE b
Max(a, b) == IF a > b THEN a ELSE b
Range(s) == {s[i] : i \in 1..Len(s)}

(* ---------------- characters ---------------- *)
UpperChars == <<"A","B","C","D","E","F","G","H","I","J","K","L","M",
                "N","O","P","Q","R","S","T","U","V","W","X","Y","Z">>
LowerChars == <<"a","b","c","d","e","f","g","h","i","j","k","l","m",
                "n","o","p","q","r","s","t","u","v","w","x","y","z">>
DigitChars == <<"0","1","2","3","4","5","6","7","8","9">>

\* str.isspace / regex \s on the characters the model uses
IsSpace(c) == c \in {" ", "\t", "\n", "\r"}

\* one character of str.lower()
LowerChar(c) ==
    IF \E i \in 1..26 : UpperChars[i] = c
    THEN LowerChars[CHOOSE i \in 1..26 : UpperChars[i] = c]
    ELSE c

\* str.lower()
Lower(s) == [i \in 1..Len(s) |-> LowerChar(s[i])]

\* the character class [a-zA-Z0-9]
IsAlnum(c) == c \in Range(UpperChars) \cup Range(LowerChars) \cup Range(DigitChars)

RECURSIVE LStrip(_)
LStrip(s) == IF s # <<>> /\ IsSpace(Head(s)) THEN LStrip(Tail(s)) ELSE s

RECURSIVE RStrip(_)
RStrip(s) == IF s # <<>> /\ IsSpace(s[Len(s)]) THEN RStrip(SubSeq(s, 1, Len(s) - 1)) ELSE s

\* str.strip()
Strip(s) == RStrip(LStrip(s))

\* re.sub(r"\s+", " ", s)
RECURSIVE CollapseSpaces(_)
CollapseSpaces(s) ==
    IF s = <<>> THEN <<>>
    ELSE IF IsSpace(Head(s))
         THEN <<" ">> \o CollapseSpaces(LStrip(Tail(s)))
         ELSE <<Head(s)>> \o CollapseSpaces(Tail(s))

\* the text after line 23 of _chunks
Normalized(s) == Strip(CollapseSpaces(s))

(* ---------------- tokenize ---------------- *)
\* re.findall(r"[a-zA-Z0-9]+", s): the maximal alphanumeric runs, left to right;
\* cur is the run being read
RECURSIVE FindAllAlnum(_, _)
FindAllAlnum(s, cur) ==
    IF s = <<>> THEN (IF cur = <<>> THEN <<>> ELSE <<cur>>)
    ELSE IF IsAlnum(Head(s))
         THEN FindAllAlnum(Tail(s), Append(cur, Head(s)))
         ELSE (IF cur = <<>> THEN <<>> ELSE <<cur>>) \o FindAllAlnum(Tail(s), <<>>)

tokenize(s) == FindAllAlnum(Lower(s), <<>>)

(* ---------------- _chunks ---------------- *)
\* [t[i:i+size] for i in range(i, len(t), step)]
RECURSIVE Windows(_, _, _, _)
Windows(t, sz, step, i) ==
    IF i >= Len(t) THEN <<>>
    ELSE <<SubSeq(t, i + 1, Min(i + sz, Len(t)))>> \o Windows(t, sz, step, i + step)

chunkStep_noOverlap(sz, ov) == Max(1, sz)

chunkStep(sz, ov) == Max(1, sz - ov)

_chunks(s, sz, ov) ==
    LET t == Normalized(s)
    IN  IF t = <<>> THEN <<>> ELSE Windows(t, sz, chunkStep(sz, ov), 0)

(* ======================================================================= *)
(* Specification of the chunker alone                                      *)
(* ======================================================================= *)
ChunkAlphabet == {"a", " ", "\n"}

RECURSIVE SeqsUpTo(_, _)
SeqsUpTo(S, n) ==
    IF n = 0 THEN {<<>>}
    ELSE LET shorter == SeqsUpTo(S, n - 1)
         IN  shorter \cup {Append(s, c) : s \in {x \in shorter : Len(x) = n - 1}, c \in S}

NoFolder == [exists |-> FALSE, entries |-> <<>>]

\* the index of no passage: build_index([])
NoIndex == [doc_tokens |-> <<>>, df |-> <<>>, N |-> 0]

Idle ==
    /\ folder = NoFolder /\ passages = <<>> /\ index = NoIndex
    /\ q = <<>> /\ k = TOP_K /\ hits = <<>> /\ out = <<>> /\ searched = FALSE

InitChunks ==
    /\ text \in SeqsUpTo(ChunkAlphabet, MaxTextLen)
    /\ size \in 1..MaxSize
    /\ overlap \in 0..(size - 1)
    /\ chunks = <<>>
    /\ pc = "call"
    /\ Idle

CallChunks ==
    /\ pc = "call"
    /\ chunks' = _chunks(text, size, overlap)
    /\ pc' = "ret"
    /\ UNCHANGED <<text, size, overlap, folder, passages, index, q, k, hits, out, searched>>

NextChunks == CallChunks

SpecChunks == InitChunks /\ [][NextChunks]_vars

\* ceil(a / b) for b > 0
Ceil(a, b) == -((-a) \div b)

NormLen == Len(Normalized(text))

\* C3 as stated: ceil((L - O) / (S - O)) chunks when L > 0, 0 chunks when L = 0,
\* exactly 1 chunk whenever L <= S
C3_AsStated ==
    pc = "ret" =>
        /\ NormLen > 0 => Len(chunks) = Ceil(NormLen - overlap, size - overlap)
        /\ NormLen = 0 => Len(chunks) = 0
        /\ (NormLen > 0 /\ NormLen <= size) => Len(chunks) = 1

\* C3 amended: the chunker returns ceil(L / (S - O)) chunks when L > 0, 0 chunks
\* when L = 0 and exactly 1 chunk whenever 0 < L <= S - O
C3_ChunkCount ==
    pc = "ret" =>
        /\ NormLen > 0 => Len(chunks) = Ceil(NormLen, size - overlap)
        /\ NormLen = 0 => Len(chunks) = 0
        /\ (NormLen > 0 /\ NormLen <= size - overlap) => Len(chunks) = 1

C3_Witness ==
    /\ pc = "ret" /\ overlap > 0 /\ NormLen > size /\ Len(text) > NormLen
    /\ Len(chunks) > 2

(* ======================================================================= *)
(* load_pdf_passages                                                       *)
(* ======================================================================= *)
(* A folder is [exists, entries]; entries is os.listdir's order.  A file   *)
(* is [name, readable, pages, breakAt]: PdfReader(path) raises when        *)
(* readable is FALSE, and the iteration of reader.pages raises on reaching *)
(* page breakAt (0: it never raises).  A page is [ok, text]:               *)
(* extract_text() raises when ok is FALSE.                                 *)

Event(type, name, n) == [type |-> type, name |-> name, n |-> n]
Warn(name) == Event("warn", name, 0)

\* name.lower().endswith(".pdf")
IsPdfName(name) ==
    LET l == Lower(name)
    IN  Len(l) >= 4 /\ SubSeq(l, Len(l) - 3, Len(l)) = <<".", "p", "d", "f">>

\* lines 46-49
PageText(page) == IF page.ok THEN page.text ELSE <<>>

\* lines 50-56 for the page with 0-based index i
RECURSIVE ChunkPassages(_, _, _)
ChunkPassages(name, i, cs) ==
    IF cs = <<>> THEN <<>>
    ELSE (IF Strip(Head(cs)) # <<>>
          THEN <<[source |-> name, page |-> i + 1, text |-> Strip(Head(cs))]>>
          ELSE <<>>) \o ChunkPassages(name, i, Tail(cs))

PagePassages(name, i, page) ==
    ChunkPassages(name, i, _chunks(PageText(page), CHUNK_SIZE, CHUNK_OVERLAP))

FirstBadPage(doc) ==
    IF \E j \in 1..Len(doc.pages) : ~doc.pages[j].ok
    THEN CHOOSE j \in 1..Len(doc.pages) :
            ~doc.pages[j].ok /\ \A j2 \in 1..(j - 1) : doc.pages[j2].ok
    ELSE 0

ReadUpTo_pageAborts(doc) ==
    LET b == IF ~doc.readable THEN 0
             ELSE IF doc.breakAt = 0 THEN Len(doc.pages) ELSE doc.breakAt - 1
    IN  IF FirstBadPage(doc) = 0 THEN b ELSE Min(b, FirstBadPage(doc) - 1)

\* the number of pages whose body (lines 46-56) runs before the loop of line 45
\* ends or the handler of line 57 is entered
ReadUpTo(doc) ==
    IF ~doc.readable THEN 0
    ELSE IF doc.breakAt = 0 THEN Len(doc.pages) ELSE doc.breakAt - 1

\* the handler of line 57 is entered
ReadFails(doc) == ~doc.readable \/ doc.breakAt # 0

\* the passages appended for pages 1..n of doc
RECURSIVE PagesPassages(_, _)
PagesPassages(doc, n) ==
    IF n = 0 THEN <<>>
    ELSE PagesPassages(doc, n - 1) \o PagePassages(doc.name, n - 1, doc.pages[n])

\* lines 39-58 over the remaining entries, acc = [passages, warnings]
RECURSIVE LoadEntries(_, _)
LoadEntries(entries, acc) ==
    IF entries = <<>> THEN acc
    ELSE LET doc == Head(entries)
         IN  IF ~IsPdfName(doc.name)
             THEN LoadEntries(Tail(entries), acc)
             ELSE LoadEntries(Tail(entries),
                    [passages |-> acc.passages \o PagesPassages(doc, ReadUpTo(doc)),
                     warnings |-> IF ReadFails(doc)
                                  THEN Append(acc.warnings, Warn(doc.name))
                                  ELSE acc.warnings])

load_pdf_passages(f) ==
    IF ~f.exists THEN [passages |-> <<>>, warnings |-> <<>>]
    ELSE LoadEntries(f.entries, [passages |-> <<>>, warnings |-> <<>>])

\* os.makedirs(folder, exist_ok=True) on line 36
FolderAfterLoad(f) == IF ~f.exists THEN [exists |-> TRUE, entries |-> <<>>] ELSE f

(* ---------------- the folders of the model ---------------- *)
NameA == <<"a", ".", "p", "d", "f">>
NameB == <<"b", ".", "P", "D", "F">>
NameT == <<"n", ".", "t", "x", "t">>

PageKinds == { [ok |-> TRUE,  text |-> <<"a", "\n", "b">>],
               [ok |-> TRUE,  text |-> <<" ">>],
               [ok |-> FALSE, text |-> <<>>] }

\* what a PDF file can hold: unreadable, or pages with or without a break
PdfContents ==
    {[readable |-> FALSE, pages |-> <<>>, breakAt |-> 0]}
    \cup {[readable |-> TRUE, pages |-> pb[1], breakAt |-> pb[2]] :
             pb \in {x \in SeqsUpTo(PageKinds, MaxPages) \X (0..MaxPages) : x[2] <= Len(x[1])}}

\* a file that is not a PDF and would yield a passage if it were read
OtherContents == {[readable |-> TRUE, pages |-> <<[ok |-> TRUE, text |-> <<"a", "\n", "b">>]>>,
                   breakAt |-> 0]}

Names == {NameA, NameB, NameT}

\* os.listdir: the names of the folder, each once, in any order
NameOrders ==
    {no \in SeqsUpTo(Names, Cardinality(Names)) :
        \A i, j \in 1..Len(no) : i # j => no[i] # no[j]}

\* the contents the i-th listed file can have (none past the end of the listing)
ContentsAt(no, i) ==
    IF i > Len(no) THEN {[readable |-> FALSE, pages |-> <<>>, breakAt |-> 0]}
    ELSE IF IsPdfName(no[i]) THEN PdfContents ELSE OtherContents

Listing(no, c) ==
    [i \in 1..Len(no) |-> [name |-> no[i], readable |-> c[i].readable,
                            pages |-> c[i].pages, breakAt |-> c[i].breakAt]]

(* ======================================================================= *)
(* Specification of the passage extractor alone                            *)
(* ======================================================================= *)
InitLoad ==
    /\ \/ folder = NoFolder
       \/ \E no \in NameOrders :
             \E c1 \in ContentsAt(no, 1), c2 \in ContentsAt(no, 2), c3 \in ContentsAt(no, 3) :
                folder = [exists |-> TRUE, entries |-> Listing(no, <<c1, c2, c3>>)]
    /\ passages = <<>> /\ out = <<>>
    /\ pc = "call"
    /\ text = <<>> /\ size = CHUNK_SIZE /\ overlap = CHUNK_OVERLAP /\ chunks = <<>>
    /\ index = NoIndex /\ q = <<>> /\ k = TOP_K /\ hits = <<>> /\ searched = FALSE

CallLoad ==
    /\ pc = "call"
    /\ passages' = load_pdf_passages(folder).passages
    /\ out' = load_pdf_passages(folder).warnings
    /\ folder' = FolderAfterLoad(folder)
    /\ pc' = "ret"
    /\ UNCHANGED <<text, size, overlap, chunks, index, q, k, hits, searched>>

NextLoad == CallLoad

SpecLoad == InitLoad /\ [][NextLoad]_vars

PdfEntries(f) == {i \in 1..Len(f.entries) : IsPdfName(f.entries[i].name)}

\* every passage of every page of a document, page failures read as empty text
WholeDocument(doc) == PagesPassages(doc, Len(doc.pages))

RECURSIVE SuccessfulOnly(_)
SuccessfulOnly(entries) ==
    IF entries = <<>> THEN <<>>
    ELSE (IF IsPdfName(Head(entries).name) /\ ~ReadFails(Head(entries))
          THEN WholeDocument(Head(entries)) ELSE <<>>)
         \o SuccessfulOnly(Tail(entries))

\* C4: a document whose reading fails (at opening or while its pages are
\* iterated) leaves no passage in the result and gets a warning, and the result
\* is the concatenation of the passages of the successfully read documents
C4_FailedDocumentSkipped ==
    pc = "ret" =>
        /\ \A i \in PdfEntries(folder) :
              ReadFails(folder.entries[i]) =>
                 /\ \A j \in 1..Len(passages) : passages[j].source # folder.entries[i].name
                 /\ Warn(folder.entries[i].name) \in Range(out)
        /\ passages = SuccessfulOnly(folder.entries)

\* the folder with every failing page replaced by a page of empty text
AsEmptyPages(f) ==
    [exists |-> f.exists,
     entries |-> [i \in 1..Len(f.entries) |->
        [f.entries[i] EXCEPT !.pages =
            [j \in 1..Len(f.entries[i].pages) |->
                IF f.entries[i].pages[j].ok THEN f.entries[i].pages[j]
                ELSE [ok |-> TRUE, text |-> <<>>]]]]]

\* C9: a page whose text extraction fails contributes no passage and no
\* warning, and the result is the one obtained had the page extracted empty text
C9_PageFailureAbsorbed ==
    pc = "ret" =>
        /\ passages = load_pdf_passages(AsEmptyPages(folder)).passages
        /\ out = load_pdf_passages(AsEmptyPages(folder)).warnings
        /\ \A i \in PdfEntries(folder) : \A j \in 1..Len(folder.entries[i].pages) :
              ~folder.entries[i].pages[j].ok =>
                 ~\E n \in 1..Len(passages) :
                     /\ passages[n].source = folder.entries[i].name
                     /\ passages[n].page = j
        /\ \A i \in PdfEntries(folder) :
              ~ReadFails(folder.entries[i]) => Warn(folder.entries[i].name) \notin Range(out)

C9_Witness ==
    /\ pc = "ret"
    /\ \E i \in PdfEntries(folder) :
          LET d == folder.entries[i]
          IN  /\ ~ReadFails(d) /\ Len(d.pages) = 2
              /\ ~d.pages[1].ok /\ d.pages[2].ok
              /\ \E n \in 1..Len(passages) :
                    passages[n].source = d.name /\ passages[n].page = 2
    /\ out = <<>>

(* ======================================================================= *)
(* build_index                                                             *)
(* ======================================================================= *)
\* the number of occurrences of token t in the token list ts
RECURSIVE Occurrences(_, _)
Occurrences(ts, t) ==
    IF ts = <<>> THEN 0
    ELSE (IF Head(ts) = t THEN 1 ELSE 0) + Occurrences(Tail(ts), t)

DfIncrement_perOccurrence(ts, t) == Occurrences(ts, t)

\* lines 69-72: what one passage with token list ts adds to df[t]
DfIncrement(ts, t) == IF t \in Range(ts) THEN 1 ELSE 0

\* Counter lookup: a missing key reads as 0
DfGet(df, t) == IF t \in DOMAIN df THEN df[t] ELSE 0

\* lines 68-72 over the remaining passages
RECURSIVE IndexPassages(_, _)
IndexPassages(ps, acc) ==
    IF ps = <<>> THEN acc
    ELSE LET ts == tokenize(Head(ps).text)
             toks == Range(ts)
         IN  IndexPassages(Tail(ps),
                [doc_tokens |-> Append(acc.doc_tokens, toks),
                 df |-> [t \in (DOMAIN acc.df) \cup toks |->
                            DfGet(acc.df, t) + DfIncrement(ts, t)],
                 N |-> acc.N])

build_index(ps) ==
    [IndexPassages(ps, [doc_tokens |-> <<>>, df |-> <<>>, N |-> 0]) EXCEPT !.N = Len(ps)]

(* ======================================================================= *)
(* retrieve                                                                *)
(* ======================================================================= *)
\* A score is the fraction [num, den] whose natural logarithm the code sums.
ZeroScore == [num |-> 1, den |-> 1]
ScoreLess(a, b) == a.num * b.den < b.num * a.den
ScoreEq(a, b) == a.num * b.den = b.num * a.den
ScorePositive(a) == a.num > a.den

ScoredTokens_allQueryTokens(qtokens, toks) ==
    IF Range(qtokens) \cap toks = {} THEN {} ELSE Range(qtokens)

\* line 90: overlap = set(qtokens) & toks
ScoredTokens(qtokens, toks) == Range(qtokens) \cap toks

\* lines 93-96: the sum of ln(1 + N / (1 + df[t])) over T, as a product
RECURSIVE IdfProduct(_, _, _)
IdfProduct(T, df, N) ==
    IF T = {} THEN ZeroScore
    ELSE LET t == CHOOSE x \in T : TRUE
             rest == IdfProduct(T \ {t}, df, N)
         IN  [num |-> rest.num * (1 + DfGet(df, t) + N),
              den |-> rest.den * (1 + DfGet(df, t))]

\* lines 88-97, i counted from 1
score(qtokens, idx, i) ==
    LET o == ScoredTokens(qtokens, idx.doc_tokens[i])
    IN  IF o = {} THEN ZeroScore ELSE IdfProduct(o, idx.df, idx.N)

Before_stable(a, b) == ScoreLess(b.sc, a.sc) \/ (ScoreEq(a.sc, b.sc) /\ a.i < b.i)

\* line 100: (sc, i) tuples in descending order, a before b
Before(a, b) == ScoreLess(b.sc, a.sc) \/ (ScoreEq(a.sc, b.sc) /\ a.i > b.i)

RECURSIVE InsertSorted(_, _)
InsertSorted(x, s) ==
    IF s = <<>> THEN <<x>>
    ELSE IF Before(x, Head(s)) THEN <<x>> \o s
         ELSE <<Head(s)>> \o InsertSorted(x, Tail(s))

RECURSIVE SortScored(_)
SortScored(s) == IF s = <<>> THEN <<>> ELSE InsertSorted(Head(s), SortScored(Tail(s)))

KeepHit_nonNegative(sc) == ~ScoreLess(sc, ZeroScore)

\* lines 103-104: sc <= 0 is skipped
KeepHit(sc) == ScorePositive(sc)

\* lines 101-105 over the slice scored[:k]
RECURSIVE CollectHits(_, _)
CollectHits(sl, ps) ==
    IF sl = <<>> THEN <<>>
    ELSE (IF KeepHit(Head(sl).sc)
          THEN <<[score |-> Head(sl).sc, passage |-> ps[Head(sl).i]]>>
          ELSE <<>>) \o CollectHits(Tail(sl), ps)

retrieve(query, ps, idx, kk) ==
    IF ps = <<>> THEN <<>>
    ELSE LET qtokens == tokenize(query)
         IN  IF qtokens = <<>> THEN <<>>
             ELSE LET scored == SortScored([i \in 1..idx.N |->
                                    [sc |-> score(qtokens, idx, i), i |-> i]])
                  IN  CollectHits(SubSeq(scored, 1, Min(kk, Len(scored))), ps)

(* ======================================================================= *)
(* Specification of the index builder and the retriever alone              *)
(* ======================================================================= *)
Texts == { <<"a">>, <<"a", " ", "b">>, <<"B", ",", "c">>, <<"a", " ", "a">>, <<"c", "-", "d", "2">> }

Queries == { <<>>, <<"?", "!">>, <<"a">>, <<"A", " ", "b">>, <<"c">>,
             <<"b", " ", "c", " ", "d", "2">>, <<"z">> }

ExtraTokens == { <<"z">>, <<"y", "9">>, <<"d", "2">>, <<"a">> }

\* passage i is page i of one document
AsPassages(ts) == [i \in 1..Len(ts) |-> [source |-> NameA, page |-> i, text |-> ts[i]]]

InitRetrieve ==
    /\ passages \in {AsPassages(ts) : ts \in SeqsUpTo(Texts, MaxPassages)}
    /\ index = NoIndex
    /\ pc = "build"
    /\ q = <<>> /\ k = TOP_K /\ hits = <<>>
    /\ text = <<>> /\ size = CHUNK_SIZE /\ overlap = CHUNK_OVERLAP /\ chunks = <<>>
    /\ folder = NoFolder /\ out = <<>> /\ searched = FALSE

CallBuildIndex ==
    /\ pc = "build"
    /\ index' = build_index(passages)
    /\ pc' = "query"
    /\ UNCHANGED <<text, size, overlap, chunks, folder, passages, q, k, hits, out, searched>>

CallRetrieve ==
    /\ pc = "query"
    /\ \E query \in Queries, kk \in 0..MaxK :
          /\ q' = query
          /\ k' = kk
          /\ hits' = retrieve(query, passages, index, kk)
    /\ pc' = "ret"
    /\ UNCHANGED <<text, size, overlap, chunks, folder, passages, index, out, searched>>

NextRetrieve == CallBuildIndex \/ CallRetrieve

SpecRetrieve == InitRetrieve /\ [][NextRetrieve]_vars

\* C6: the index has one token set per passage, in order, each the set of
\* tokens of its passage's text; df[t] is the number of passages whose token set
\* contains t and has no key outside the passages' tokens; N is the passage
\* count; no passage gives size 0 and empty structures
C6_IndexAlignment ==
    pc # "build" =>
        /\ Len(index.doc_tokens) = Len(passages) /\ index.N = Len(passages)
        /\ \A i \in 1..Len(passages) :
              index.doc_tokens[i] = Range(tokenize(passages[i].text))
        /\ DOMAIN index.df = UNION {Range(tokenize(passages[i].text)) : i \in 1..Len(passages)}
        /\ \A t \in DOMAIN index.df :
              index.df[t] = Cardinality({i \in 1..Len(passages) :
                                            t \in Range(tokenize(passages[i].text))})
        /\ passages = <<>> => (index.N = 0 /\ index.doc_tokens = <<>> /\ DOMAIN index.df = {})

C6_Witness ==
    /\ pc = "query" /\ Len(passages) = 3
    /\ \E t \in DOMAIN index.df : index.df[t] = 2
    /\ \E i \in 1..3 : Occurrences(tokenize(passages[i].text), <<"a">>) = 2

\* the position in the passage collection of a returned passage
Pos(p) == CHOOSE i \in 1..Len(passages) : passages[i] = p
HitPos(n) == Pos(hits[n].passage)
HitPositions == {HitPos(n) : n \in 1..Len(hits)}

\* the passages that share a token with the query
Matching == {i \in 1..Len(passages) :
                Range(tokenize(q)) \cap Range(tokenize(passages[i].text)) # {}}

ScoreOf(i) == score(tokenize(q), index, i)

\* C5: retrieve returns the min(k, P) highest-scoring of the P passages with
\* positive score, by non-increasing score: no hit has score <= 0, at most k
\* hits, and a positive-score passage is left out only when k passages with
\* score at least as high are returned
C5_TopKPositive ==
    pc = "ret" =>
        /\ Len(hits) = Min(k, Cardinality(Matching))
        /\ \A n \in 1..Len(hits) :
              /\ ScorePositive(hits[n].score)
              /\ hits[n].passage \in Range(passages)
              /\ HitPos(n) \in Matching
              /\ ScoreEq(hits[n].score, ScoreOf(HitPos(n)))
        /\ \A n, m \in 1..Len(hits) :
              n < m => (HitPos(n) # HitPos(m) /\ ~ScoreLess(hits[n].score, hits[m].score))
        /\ \A i \in Matching \ HitPositions :
              /\ Len(hits) = k
              /\ \A n \in 1..Len(hits) : ~ScoreLess(hits[n].score, ScoreOf(i))

C5_Witness ==
    /\ pc = "ret" /\ k = 2 /\ Len(hits) = 2
    /\ Cardinality(Matching) = 3 /\ Len(passages) = 3
    /\ ScoreLess(hits[2].score, hits[1].score)

C5_WitnessFewer ==
    /\ pc = "ret" /\ k = 2 /\ Len(hits) = 1 /\ Len(passages) = 3

\* C2 as stated: of two hits with equal scores the one with the smaller position
\* comes first, and when equal scores straddle the cut at k the lower-positioned
\* passage is the one kept
C2_AsStated ==
    pc = "ret" =>
        /\ \A n, m \in 1..Len(hits) :
              (n < m /\ ScoreEq(hits[n].score, hits[m].score)) => HitPos(n) < HitPos(m)
        /\ \A i \in Matching \ HitPositions : \A n \in 1..Len(hits) :
              ScoreEq(hits[n].score, ScoreOf(i)) => HitPos(n) < i

\* C2 amended: of two hits with equal scores the one with the larger position
\* comes first, and when equal scores straddle the cut at k the
\* higher-positioned passage is the one kept
C2_TiesByDescendingPosition ==
    pc = "ret" =>
        /\ \A n, m \in 1..Len(hits) :
              (n < m /\ ScoreEq(hits[n].score, hits[m].score)) => HitPos(n) > HitPos(m)
        /\ \A i \in Matching \ HitPositions : \A n \in 1..Len(hits) :
              ScoreEq(hits[n].score, ScoreOf(i)) => HitPos(n) > i

C2_Witness ==
    /\ pc = "ret" /\ Len(hits) = 2 /\ k = 2
    /\ ScoreEq(hits[1].score, hits[2].score)
    /\ \E i \in Matching \ HitPositions : ScoreEq(hits[2].score, ScoreOf(i))

\* the query with the token t added after it, or before it
WithTokenAfter(query, t) == query \o <<" ">> \o t
WithTokenBefore(query, t) == t \o <<" ">> \o query

InNoPassage(t) == \A i \in 1..Len(passages) : t \notin Range(tokenize(passages[i].text))

\* C8: adding to the query a token that occurs in no passage leaves every
\* passage's score unchanged, and the result of retrieve unchanged when the
\* original query has a token
C8_AbsentTokenNeutral ==
    pc = "ret" =>
        \A t \in ExtraTokens : InNoPassage(t) =>
            \A q2 \in {WithTokenAfter(q, t), WithTokenBefore(q, t)} :
                /\ \A i \in 1..Len(passages) :
                      ScoreEq(score(tokenize(q2), index, i), ScoreOf(i))
                /\ tokenize(q) # <<>> => retrieve(q2, passages, index, k) = hits

C8_Witness ==
    /\ pc = "ret" /\ hits # <<>> /\ Len(passages) = 2
    /\ InNoPassage(<<"y", "9">>) /\ ~InNoPassage(<<"d", "2">>)
    /\ tokenize(WithTokenAfter(q, <<"y", "9">>)) = Append(tokenize(q), <<"y", "9">>)

(* ======================================================================= *)
(* main: the interactive session                                           *)
(* ======================================================================= *)
(* pc is the position of main(); out is what the session has printed since *)
(* the last line was read; searched tells whether retrieve was called      *)
(* since the last line was read.                                           *)

Banner == Event("banner", <<>>, 0)
Bye == Event("bye", <<>>, 0)
Reloaded(n) == Event("reloaded", <<>>, n)
Disclaimer == Event("disclaimer", <<>>, 0)
NoMatch == Event("nomatch", <<>>, 0)
MatchesHeader == Event("matches", <<>>, 0)

\* line 148: the words whose presence in q.lower() triggers the disclaimer
TriggerWords == { <<"e","m","i">>, <<"s","i","p">>, <<"c","a","g","r">>, <<"x","i","r","r">>,
                  <<"p","o","r","t","f","o","l","i","o">>, <<"c","s","v">>, <<"%">>,
                  <<"y","e","a","r","s">>, <<"m","o","n","t","h","s">> }

\* w in s
Contains(s, w) ==
    \E i \in 1..(Len(s) - Len(w) + 1) : SubSeq(s, i, i + Len(w) - 1) = w

HasTrigger(line) == \E w \in TriggerWords : Contains(Lower(line), w)

QuitWords == { <<"q","u","i","t">>, <<"e","x","i","t">> }
ReloadWord == <<"r","e","l","o","a","d">>

InputLines ==
    { <<>>, <<" ", "\t">>,
      <<"q","u","i","t">>, <<"E","x","i","t"," ">>,
      <<"r","e","l","o","a","d">>, <<" ","R","E","L","O","A","D">>,
      <<"a">>, <<"z">>, <<"?">>,
      <<"b"," ","5","%">>, <<"S","I","P"," ","a">>, <<"r","e","m","i","t">> }

PageAB == [ok |-> TRUE, text |-> <<"a", "\n", "b">>]
PageSip == [ok |-> TRUE, text |-> <<"s", "i", "p", " ", "b">>]
PageBad == [ok |-> FALSE, text |-> <<>>]

File(name, readable, pages, breakAt) ==
    [name |-> name, readable |-> readable, pages |-> pages, breakAt |-> breakAt]
Existing(entries) == [exists |-> TRUE, entries |-> entries]

SessionFolders ==
    { NoFolder,
      Existing(<<>>),
      Existing(<<File(NameA, TRUE, <<PageAB>>, 0)>>),
      Existing(<<File(NameB, FALSE, <<>>, 0), File(NameA, TRUE, <<PageBad, PageSip>>, 0)>>),
      Existing(<<File(NameA, TRUE, <<PageAB, PageSip>>, 0),
                 File(NameB, TRUE, <<PageAB, PageAB>>, 2)>>) }

Init ==
    /\ folder \in SessionFolders
    /\ passages = <<>> /\ index = NoIndex
    /\ q = <<>> /\ k = TOP_K /\ hits = <<>> /\ out = <<>> /\ searched = FALSE
    /\ pc = "start"
    /\ text = <<>> /\ size = CHUNK_SIZE /\ overlap = CHUNK_OVERLAP /\ chunks = <<>>

Pinned == UNCHANGED <<text, size, overlap, chunks, k>>

\* lines 126-127
StartLoad ==
    /\ pc = "start"
    /\ passages' = load_pdf_passages(folder).passages
    /\ out' = <<Banner>> \o load_pdf_passages(folder).warnings
    /\ folder' = FolderAfterLoad(folder)
    /\ pc' = "start_index"
    /\ UNCHANGED <<index, q, hits, searched>> /\ Pinned

\* line 128
StartIndex ==
    /\ pc = "start_index"
    /\ index' = build_index(passages)
    /\ pc' = "prompt"
    /\ UNCHANGED <<folder, passages, q, hits, out, searched>> /\ Pinned

\* the user adds, replaces or removes files while the session waits at the prompt
ChangeFolder ==
    /\ pc = "prompt"
    /\ folder' \in SessionFolders \ {folder}
    /\ UNCHANGED <<passages, index, q, hits, out, searched, pc>> /\ Pinned

\* line 132: a line is read
ReadLine ==
    /\ pc = "prompt"
    /\ \E line \in InputLines : q' = Strip(line)
    /\ out' = <<>> /\ searched' = FALSE
    /\ pc' = "dispatch"
    /\ UNCHANGED <<folder, passages, index, hits>> /\ Pinned

\* lines 133-135: end of input or an interrupt at the prompt
ReadEOF ==
    /\ pc = "prompt"
    /\ out' = <<Bye>> /\ searched' = FALSE
    /\ pc' = "done"
    /\ UNCHANGED <<folder, passages, index, q, hits>> /\ Pinned

IsQuit(line) == Lower(line) \in QuitWords
IsReload(line) == Lower(line) = ReloadWord
IsQuery(line) == line # <<>> /\ ~IsQuit(line) /\ ~IsReload(line)

Dispatch_emptyIsQuery ==
    /\ pc = "dispatch"
    /\ pc' = IF IsQuit(q) THEN "done"
             ELSE IF IsReload(q) THEN "reload"
             ELSE "check"
    /\ UNCHANGED <<folder, passages, index, q, hits, out, searched>> /\ Pinned

\* lines 137-141
Dispatch ==
    /\ pc = "dispatch"
    /\ pc' = IF q = <<>> THEN "prompt"
             ELSE IF IsQuit(q) THEN "done"
             ELSE IF IsReload(q) THEN "reload"
             ELSE "check"
    /\ UNCHANGED <<folder, passages, index, q, hits, out, searched>> /\ Pinned

\* line 142
ReloadLoad ==
    /\ pc = "reload"
    /\ passages' = load_pdf_passages(folder).passages
    /\ out' = out \o load_pdf_passages(folder).warnings
    /\ folder' = FolderAfterLoad(folder)
    /\ pc' = "reload_index"
    /\ UNCHANGED <<index, q, hits, searched>> /\ Pinned

\* line 143
ReloadIndex ==
    /\ pc = "reload_index"
    /\ index' = build_index(passages)
    /\ pc' = "reload_report"
    /\ UNCHANGED <<folder, passages, q, hits, out, searched>> /\ Pinned

\* lines 144-145
ReloadReport ==
    /\ pc = "reload_report"
    /\ out' = Append(out, Reloaded(Len(passages)))
    /\ pc' = "prompt"
    /\ UNCHANGED <<folder, passages, index, q, hits, searched>> /\ Pinned

CheckTrigger_insteadOfSearch ==
    /\ pc = "check"
    /\ out' = IF HasTrigger(q) THEN Append(out, Disclaimer) ELSE out
    /\ pc' = IF HasTrigger(q) THEN "prompt" ELSE "search"
    /\ UNCHANGED <<folder, passages, index, q, hits, searched>> /\ Pinned

\* lines 148-149
CheckTrigger ==
    /\ pc = "check"
    /\ out' = IF HasTrigger(q) THEN Append(out, Disclaimer) ELSE out
    /\ pc' = "search"
    /\ UNCHANGED <<folder, passages, index, q, hits, searched>> /\ Pinned

\* line 151
Search ==
    /\ pc = "search"
    /\ hits' = retrieve(q, passages, index, TOP_K)
    /\ searched' = TRUE
    /\ pc' = "report"
    /\ UNCHANGED <<folder, passages, index, q, out>> /\ Pinned

\* lines 118-123, the source and the page of the hit
format_hit(hit, i) == Event("hit", hit.passage.source, hit.passage.page)

\* lines 152-158
Report ==
    /\ pc = "report"
    /\ out' = IF hits = <<>> THEN Append(out, NoMatch)
              ELSE Append(out, MatchesHeader) \o [i \in 1..Len(hits) |-> format_hit(hits[i], i)]
    /\ pc' = "prompt"
    /\ UNCHANGED <<folder, passages, index, q, hits, searched>> /\ Pinned

\* the statements main() executes without waiting for the user
Step ==
    \/ StartLoad \/ StartIndex \/ Dispatch
    \/ ReloadLoad \/ ReloadIndex \/ ReloadReport
    \/ CheckTrigger \/ Search \/ Report

Next == Step \/ ReadLine \/ ReadEOF \/ ChangeFolder

Spec == Init /\ [][Next]_vars

\* the positions of main() other than the wait for input and the end
Running == {"start", "start_index", "dispatch", "reload", "reload_index",
            "reload_report", "check", "search", "report"}

Positions == Running \cup {"prompt", "done"}

\* main() leaves a position in Running: one of the statements of Step runs
Advance == pc \in Running /\ pc' \in Positions \ {pc}

\* main() is sequential code: a statement that can run does run
FairSpec == Spec /\ WF_pc(Advance)

\* C1: once the session has its first index, at no step (the steps inside
\* reload included) does it hold passages together with an index built from
\* other passages
C1_MatchedPairAlways ==
    pc \notin {"start", "start_index"} => index = build_index(passages)

\* C7: a non-empty line that is not quit, exit or reload goes to the trigger
\* check; with a trigger word the disclaimer is printed first and retrieve is
\* still called in the same turn, without one retrieve is called with no
\* disclaimer; the turn never returns to the prompt before the search
C7_DisclaimerThenSearch ==
    /\ [][(pc = "dispatch" /\ IsQuery(q)) => pc' = "check"]_vars
    /\ [][(pc \in {"check", "search"}) => (pc' \notin {"prompt", "done"} /\ q' = q)]_vars
    /\ [][(searched' /\ ~searched) =>
             /\ HasTrigger(q) <=> Disclaimer \in Range(out)
             /\ hits' = retrieve(q, passages, index, TOP_K)
             /\ out' = out]_vars
    /\ [](pc = "report" => (searched /\ (HasTrigger(q) <=> Disclaimer \in Range(out))))
    /\ ((pc = "dispatch" /\ IsQuery(q)) ~> (pc = "report" /\ searched))

C7_Witness ==
    /\ pc = "report" /\ HasTrigger(q) /\ searched
    /\ out = <<Disclaimer>> /\ hits # <<>>

C7_WitnessPlain ==
    /\ pc = "report" /\ ~HasTrigger(q) /\ searched /\ out = <<>> /\ hits # <<>>

\* C10: the session ends only on quit, exit or end of input; every other line
\* brings it back to the prompt; an empty line is ignored without a search; and
\* reload reports the size of the passage collection it has just loaded
C10_SessionKeepsRunning ==
    /\ [][(pc' = "done" /\ pc # "done") =>
             \/ pc = "dispatch" /\ IsQuit(q)
             \/ pc = "prompt" /\ out' = <<Bye>>]_vars
    /\ ((pc = "dispatch" /\ ~IsQuit(q)) ~> (pc = "prompt"))
    /\ ((pc = "dispatch" /\ IsQuit(q)) ~> (pc = "done"))
    /\ [][(pc = "dispatch" /\ q = <<>>) =>
             (pc' = "prompt" /\ UNCHANGED <<folder, passages, index, hits, out, searched>>)]_vars
    /\ [][pc = "reload_report" =>
             /\ out' = Append(out, Reloaded(Len(load_pdf_passages(folder).passages)))
             /\ passages' = load_pdf_passages(folder).passages
             /\ index' = build_index(passages')]_vars
    /\ [](\A i \in 1..Len(out) : out[i].type = "reloaded" => out[i].n = Len(passages))

C10_Witness ==
    /\ pc = "prompt" /\ passages # <<>>
    /\ \E i \in 1..Len(out) : out[i].type = "warn"
    /\ out[Len(out)] = Reloaded(Len(passages))
    /\ Len(passages) # Cardinality(DOMAIN index.df)

====
